---------------------------- MODULE Spec2Model ----------------------------
(***************************************************************************)
(* Dual n-back trainer (script.js): the trial-sequence generator           *)
(* buildGameSequence, the scorer calculateScores, the adaptive level       *)
(* controller updateResultsUI / adjustN, the timer-driven session          *)
(* (startGame, nextTrial, handleInput, exitGame, endGame) and the stats    *)
(* record kept in localStorage (getStats, saveStats, recordSession).       *)
(*                                                                         *)
(* Array indices are the source's 0-based indices: At(s, i) is s[i].       *)
(* Math.random() is the only input of the generator; every draw is a       *)
(* nondeterministic choice.                                                *)
(***************************************************************************)
EXTENDS Integers, Sequences, FiniteSets, TLC

VARIABLES
    nLevel,      \* let nLevel      (script.js:158)
    numTrials,   \* let numTrials   (script.js:159)
    sequence,    \* let sequence    (script.js:161)
    responses,   \* let responses   (script.js:162)
    scores,      \* the scores object: returned by calculateScores, shown by updateResultsUI
    levelUpMessage,  \* the level-up-message element of updateResultsUI
    gen,         \* the activation of buildGameSequence: its locals and position
    currentTrial,   \* let currentTrial   (script.js:160)
    gameActive,     \* let gameActive     (script.js:163)
    stimulusShown,  \* let stimulusShown  (script.js:164)
    gameTimeout,    \* let gameTimeout    (script.js:165): 0 is null, else a timer id
    timers,      \* the browser's pending setTimeout callbacks: [id, kind]
    starting,    \* startGame calls suspended at await initAudio()
    screen,      \* the element showScreen made active
    activeCell,  \* the grid cell with class 'active': -1 is none
    stored,      \* localStorage item STATS_KEY
    now,         \* the clock read by new Date()
    statsView,   \* what renderStats last received from getStats
    uncaught,    \* the last exception that escaped a handler or a call
    starts,      \* the number of startGame calls so far
    aborted,     \* exitGame has run and startGame has not resumed since
    recorded,    \* the history entries saveStats has written since the record was last absent
    readLost,    \* a getStats call of recordSession has lost the record to a failed read
    playedLevel, \* the n of the buildGameSequence call that built sequence (line 312)
    audioLoaded, \* let audioLoaded  (script.js:38)
    startBtn,    \* the start-btn element: its disabled flag and its text
    load         \* the activation of loadAudioFiles: its locals and position

\* the session and its timers
sessionVars ==
    <<currentTrial, gameActive, stimulusShown, gameTimeout, timers, starting,
      screen, activeCell, starts, aborted, playedLevel>>

\* the stats record and its readers
storeVars == <<stored, now, statsView, recorded, readLost>>

\* the audio assets and the start button
audioVars == <<audioLoaded, startBtn, load>>

appVars == <<sessionVars, storeVars, uncaught, audioVars>>

vars == <<nLevel, numTrials, sequence, responses, scores, levelUpMessage, gen, appVars>>

\* everything but the activation of buildGameSequence
pageVars == <<nLevel, numTrials, sequence, responses, scores, levelUpMessage, appVars>>

---------------------------------------------------------------------------
(* Program constants *)

MIN_LEVEL == 1
MAX_LEVEL == 9
MIN_TRIALS == 10
MAX_TRIALS == 50
GRID_CELLS == 9
LEVEL_UP_THRESHOLD == 85
LEVEL_DOWN_THRESHOLD == 70

\* LETTER_DISTRIBUTIONS[ACTIVE_DISTRIBUTION], 'brainworkshop'
letters == <<"C", "H", "J", "K", "L", "Q", "R", "S", "T">>

---------------------------------------------------------------------------
(* Bounds of the model *)

\* buildGameSequence is explored for every lag 1..GenMaxLag ...
GenMaxLag == 2
\* ... and every trial count up to GenMaxTrials
GenMaxTrials == 7
\* the value draws (cell, letter) take Math.random() from the multiples of
\* 1/ValueSamples; the index draws of pickRandomTrials are never restricted
ValueSamples == 1

---------------------------------------------------------------------------
(* JavaScript primitives *)

Max(a, b) == IF a >= b THEN a ELSE b
Min(a, b) == IF a <= b THEN a ELSE b
Abs(x) == IF x < 0 THEN -x ELSE x

\* Math.round(num / den) for num >= 0, den > 0: halves round up
MathRound(num, den) == (2 * num + den) \div (2 * den)

\* s[i] with the source's 0-based index
At(s, i) == s[i + 1]

Range(s) == {s[k] : k \in 1..Len(s)}

\* letters.indexOf(x)
IndexOf(s, x) ==
    IF x \in Range(s) THEN (CHOOSE k \in 1..Len(s) : s[k] = x /\ \A j \in 1..(k - 1) : s[j] # x) - 1
    ELSE -1

\* s[i] where the index may lie outside the array: undefined is given as u
Elem(s, i, u) == IF 0 <= i /\ i < Len(s) THEN s[i + 1] ELSE u

\* the value undefined where a number is expected: no comparison with it holds
Undefined == -99

\* Math.floor(Math.random() * k): any of 0..k-1 for k > 0; for k <= 0 the
\* product lies in (k, 0], which floors to k..0
RandomFloor(k) == IF k > 0 THEN 0..(k - 1) ELSE k..0

\* Math.floor(Math.random() * k) when Math.random() is a multiple of
\* 1/ValueSamples
ValueDraws(k) == {(j * k) \div ValueSamples : j \in 0..(ValueSamples - 1)}

---------------------------------------------------------------------------
(* buildGameSequence(n, totalTrials) *)

matchableTrials(n, totalTrials) == totalTrials - n

dualMatches(m) == Max(1, MathRound(m, 10))
\* positionOnlyMatches with a minimum of 3
positionOnlyMatchesMin3(m) == Max(3, MathRound(m, 5))
positionOnlyMatches(m) == Max(2, MathRound(m, 5))
\* audioOnlyMatches with a share of 50%
audioOnlyMatchesHalf(m) == Max(2, MathRound(m, 2))
audioOnlyMatches(m) == Max(2, MathRound(m, 5))

\* no activation
GenIdle ==
    [pc |-> "idle", n |-> 0, totalTrials |-> 0, picked |-> <<>>,
     positionMatchTrials |-> {}, audioMatchTrials |-> {},
     positions |-> <<>>, letterSeq |-> <<>>, seq |-> <<>>]

\* entry: the sets are empty and the first pickRandomTrials call starts
GenCall(n, totalTrials) ==
    [GenIdle EXCEPT !.pc = "posOnly", !.n = n, !.totalTrials = totalTrials]

GenMatchable == matchableTrials(gen.n, gen.totalTrials)

InPick == gen.pc \in {"posOnly", "audOnly", "dual"}

\* the arguments of the pickRandomTrials call in progress
PickCount ==
    CASE gen.pc = "posOnly" -> positionOnlyMatches(GenMatchable)
      [] gen.pc = "audOnly" -> audioOnlyMatches(GenMatchable)
      [] gen.pc = "dual" -> dualMatches(GenMatchable)
      [] OTHER -> 0

PickExclude ==
    CASE gen.pc = "posOnly" -> {}
      [] gen.pc = "audOnly" -> gen.positionMatchTrials
      [] gen.pc = "dual" -> gen.positionMatchTrials \cup gen.audioMatchTrials
      [] OTHER -> {}

\* pickTrial without the offset n
pickTrialNoOffset(n, r) == r

\* the candidate index of line 200, r = Math.floor(Math.random() * matchableTrials)
pickTrial(n, r) == n + r

\* pickAccepts without the test of excludeSet
pickAcceptsIgnoringExcluded(trial, excludeSet, picked) ==
    trial \notin Range(picked)

\* the test of line 201
pickAccepts(trial, excludeSet, picked) ==
    trial \notin excludeSet /\ trial \notin Range(picked)

\* one iteration of the while loop of pickRandomTrials
PickDraw ==
    /\ InPick
    /\ Len(gen.picked) < PickCount
    /\ \E r \in RandomFloor(GenMatchable) :
         LET trial == pickTrial(gen.n, r) IN
         gen' = IF pickAccepts(trial, PickExclude, gen.picked)
                THEN [gen EXCEPT !.picked = Append(@, trial)]
                ELSE gen
    /\ UNCHANGED pageVars

\* pickRandomTrials(positionOnlyMatches, new Set()) returns
PickedPositionOnly ==
    /\ gen.pc = "posOnly"
    /\ ~(Len(gen.picked) < PickCount)
    /\ gen' = [gen EXCEPT !.positionMatchTrials = @ \cup Range(gen.picked),
                          !.picked = <<>>, !.pc = "audOnly"]
    /\ UNCHANGED pageVars

\* pickRandomTrials(audioOnlyMatches, positionMatchTrials) returns
PickedAudioOnly ==
    /\ gen.pc = "audOnly"
    /\ ~(Len(gen.picked) < PickCount)
    /\ gen' = [gen EXCEPT !.audioMatchTrials = @ \cup Range(gen.picked),
                          !.picked = <<>>, !.pc = "dual"]
    /\ UNCHANGED pageVars

\* pickRandomTrials(dualMatches, excluded) returns
PickedDual ==
    /\ gen.pc = "dual"
    /\ ~(Len(gen.picked) < PickCount)
    /\ gen' = [gen EXCEPT !.positionMatchTrials = @ \cup Range(gen.picked),
                          !.audioMatchTrials = @ \cup Range(gen.picked),
                          !.picked = <<>>, !.pc = "values"]
    /\ UNCHANGED pageVars

\* randomExcluding with val > exclude for val >= exclude
randomExcludingOffByOne(max, exclude) ==
    {IF val > exclude THEN val + 1 ELSE val : val \in ValueDraws(max - 1)}

\* randomExcluding(max, exclude): the values it can return
randomExcluding(max, exclude) ==
    {IF exclude # Undefined /\ val >= exclude THEN val + 1 ELSE val : val \in ValueDraws(max - 1)}

\* nextPositions with the non-match value drawn from the whole grid
nextPositionsUnexcluded(i, n, positions, positionMatchTrials) ==
    IF i < n THEN ValueDraws(GRID_CELLS)
    ELSE IF i \in positionMatchTrials THEN {Elem(positions, i - n, Undefined)}
    ELSE ValueDraws(GRID_CELLS)

\* the position pushed for trial i (lines 237, 241-245)
nextPositions(i, n, positions, positionMatchTrials) ==
    IF i < n THEN ValueDraws(GRID_CELLS)
    ELSE IF i \in positionMatchTrials THEN {Elem(positions, i - n, Undefined)}
    ELSE randomExcluding(GRID_CELLS, Elem(positions, i - n, Undefined))

\* the letter pushed for trial i (lines 238, 248-254)
nextLetters(i, n, letterSeq, audioMatchTrials) ==
    IF i < n THEN {At(letters, k) : k \in ValueDraws(Len(letters))}
    ELSE IF i \in audioMatchTrials THEN {Elem(letterSeq, i - n, "undefined")}
    ELSE LET prevLetterIndex == IndexOf(letters, Elem(letterSeq, i - n, "undefined"))
         IN {At(letters, newIndex) : newIndex \in randomExcluding(Len(letters), prevLetterIndex)}

\* one iteration of the loop of lines 234-256, i = positions.length
GenerateTrial ==
    /\ gen.pc = "values"
    /\ Len(gen.positions) < gen.totalTrials
    /\ LET i == Len(gen.positions) IN
       \E p \in nextPositions(i, gen.n, gen.positions, gen.positionMatchTrials),
          l \in nextLetters(i, gen.n, gen.letterSeq, gen.audioMatchTrials) :
            gen' = [gen EXCEPT !.positions = Append(@, p), !.letterSeq = Append(@, l)]
    /\ UNCHANGED pageVars

\* randomExcludingAny with the draw taken from 0..max-1
randomExcludingAnyOfMax(max, exclude) ==
    {IF exclude # Undefined /\ val >= exclude THEN val + 1 ELSE val : val \in RandomFloor(max)}

\* randomExcluding(max, exclude) over every value of Math.random():
\* val is any of 0..max-2 (lines 229-232)
randomExcludingAny(max, exclude) ==
    {IF exclude # Undefined /\ val >= exclude THEN val + 1 ELSE val : val \in RandomFloor(max - 1)}

\* nextPositions over every value of Math.random()
nextPositionsAny(i, n, positions, positionMatchTrials) ==
    IF i < n THEN RandomFloor(GRID_CELLS)
    ELSE IF i \in positionMatchTrials THEN {Elem(positions, i - n, Undefined)}
    ELSE randomExcludingAny(GRID_CELLS, Elem(positions, i - n, Undefined))

\* nextLetters over every value of Math.random()
nextLettersAny(i, n, letterSeq, audioMatchTrials) ==
    IF i < n THEN {At(letters, k) : k \in RandomFloor(Len(letters))}
    ELSE IF i \in audioMatchTrials THEN {Elem(letterSeq, i - n, "undefined")}
    ELSE LET prevLetterIndex == IndexOf(letters, Elem(letterSeq, i - n, "undefined"))
         IN {At(letters, newIndex) : newIndex \in randomExcludingAny(Len(letters), prevLetterIndex)}

\* the iteration of the loop of lines 234-256 for the first and for the last
\* trial, with every value of Math.random() in the position draw
GenerateTrialAnyPosition ==
    /\ gen.pc = "values"
    /\ Len(gen.positions) < gen.totalTrials
    /\ Len(gen.positions) \in {0, gen.totalTrials - 1}
    /\ LET i == Len(gen.positions) IN
       \E p \in nextPositionsAny(i, gen.n, gen.positions, gen.positionMatchTrials),
          l \in nextLetters(i, gen.n, gen.letterSeq, gen.audioMatchTrials) :
            gen' = [gen EXCEPT !.positions = Append(@, p), !.letterSeq = Append(@, l)]
    /\ UNCHANGED pageVars

\* the same with every value of Math.random() in the letter draw
GenerateTrialAnyLetter ==
    /\ gen.pc = "values"
    /\ Len(gen.positions) < gen.totalTrials
    /\ Len(gen.positions) \in {0, gen.totalTrials - 1}
    /\ LET i == Len(gen.positions) IN
       \E p \in nextPositions(i, gen.n, gen.positions, gen.positionMatchTrials),
          l \in nextLettersAny(i, gen.n, gen.letterSeq, gen.audioMatchTrials) :
            gen' = [gen EXCEPT !.positions = Append(@, p), !.letterSeq = Append(@, l)]
    /\ UNCHANGED pageVars

\* the stimulus objects of lines 259-267
buildSeq(totalTrials, positions, letterSeq, positionMatchTrials, audioMatchTrials) ==
    [k \in 1..totalTrials |->
        [position |-> positions[k], letter |-> letterSeq[k],
         isPositionMatch |-> (k - 1) \in positionMatchTrials,
         isAudioMatch |-> (k - 1) \in audioMatchTrials]]

\* the value loop is over: build seq and return it
GenReturn ==
    /\ gen.pc = "values"
    /\ ~(Len(gen.positions) < gen.totalTrials)
    /\ gen' = [gen EXCEPT !.pc = "returned",
                          !.seq = buildSeq(gen.totalTrials, gen.positions, gen.letterSeq,
                                           gen.positionMatchTrials, gen.audioMatchTrials)]
    /\ UNCHANGED pageVars

---------------------------------------------------------------------------
(* The generator as a function of its arguments *)

NoScores == [positionPct |-> -1, audioPct |-> -1, overallPct |-> -1]

\* localStorage has no item STATS_KEY
NoRecord == [kind |-> "missing"]

\* no session has run: the session state of lines 160-165, no timer, no
\* startGame call in progress, the start screen
NoGame ==
    /\ currentTrial = 0
    /\ gameActive = FALSE
    /\ stimulusShown = FALSE
    /\ gameTimeout = 0
    /\ timers = {}
    /\ starting = 0
    /\ screen = "start-screen"
    /\ activeCell = -1
    /\ uncaught = "none"
    /\ starts = 0
    /\ aborted = FALSE
    /\ playedLevel = 0

\* the activation of loadAudioFiles before its first letter  (lines 58-59)
LoadStarted == [pc |-> "loading", index |-> 0, loaded |-> 0, failed |-> <<>>]

\* loadAudioFiles has returned with every letter of the alphabet decoded
\* (lines 100-104)
AudioReady ==
    /\ audioLoaded = TRUE
    /\ startBtn = [disabled |-> FALSE]
    /\ load = [pc |-> "done", index |-> Len(letters), loaded |-> Len(letters), failed |-> <<>>]

\* the page with its audio loaded and no session started
NoSession == NoGame /\ AudioReady

\* nothing has been read from or written to the stats record
NoStatsCalls ==
    /\ now = 0
    /\ statsView = NoRecord
    /\ recorded = <<>>
    /\ readLost = FALSE

\* the module-level state of script.js right after its top level has run, on a
\* first run
PageLoaded ==
    /\ nLevel = 2
    /\ numTrials = 20
    /\ sequence = <<>>
    /\ responses = <<>>
    /\ scores = NoScores
    /\ levelUpMessage = "none"
    /\ NoGame
    /\ NoStatsCalls

\* the page once loadAudioFiles has decoded every letter
ScriptLoaded == PageLoaded /\ AudioReady

Constructed ==
    /\ ScriptLoaded
    /\ stored = NoRecord

\* the configurations the settings surface (adjustN, adjustTrials) can reach
SettingsConfigs == (MIN_LEVEL..MAX_LEVEL) \X (MIN_TRIALS..MAX_TRIALS)

\* the requested match indices of a configuration outnumber its matchable trials
Oversubscribed(n, totalTrials) ==
    LET m == matchableTrials(n, totalTrials)
    IN positionOnlyMatches(m) + audioOnlyMatches(m) + dualMatches(m) > m

\* the smallest request of match indices: 2 + 2 + 1
MinRequest == positionOnlyMatches(0) + audioOnlyMatches(0) + dualMatches(0)

\* the shortest sessions of the settings surface whose matchable trials do not
\* exceed the smallest request: (5,10) is served exactly, (6..9,10) are
\* oversubscribed
SettingsEdge ==
    {c \in SettingsConfigs :
        c[2] = MIN_TRIALS /\ matchableTrials(c[1], c[2]) <= MinRequest}

\* the arguments buildGameSequence is called with as a function: every small
\* (n, totalTrials) with n < totalTrials
GenInputs == {c \in (1..GenMaxLag) \X (1..GenMaxTrials) : c[1] < c[2]}

InitGen ==
    /\ Constructed
    /\ \E c \in GenInputs : gen = GenCall(c[1], c[2])

\* the same, and the calls startGame makes at the edge of the settings surface
InitGenSettings ==
    /\ Constructed
    /\ \E c \in GenInputs \cup SettingsEdge : gen = GenCall(c[1], c[2])

NextGen ==
    \/ PickDraw
    \/ PickedPositionOnly
    \/ PickedAudioOnly
    \/ PickedDual
    \/ GenerateTrial
    \/ GenReturn

SpecGen == InitGen /\ [][NextGen]_vars

SpecGenSettings == InitGenSettings /\ [][NextGen]_vars

\* Math.random() is fair: while pickRandomTrials needs an index and one is
\* eligible, an eligible index is eventually drawn; the straight-line code
\* between the loops runs on
FairDraws ==
    /\ WF_vars(PickDraw)
    /\ WF_vars(PickedPositionOnly)
    /\ WF_vars(PickedAudioOnly)
    /\ WF_vars(PickedDual)
    /\ WF_vars(GenerateTrial)
    /\ WF_vars(GenReturn)

\* the shortest calls with at least MinRequest matchable trials
FairInputs ==
    {<<MIN_LEVEL, MIN_LEVEL + MinRequest>>, <<MIN_LEVEL, MIN_LEVEL + MinRequest + 1>>,
     <<MIN_LEVEL + 1, MIN_LEVEL + 1 + MinRequest>>}

InitGenFair ==
    /\ Constructed
    /\ \E c \in FairInputs : gen = GenCall(c[1], c[2])

SpecGenFair == InitGenFair /\ [][NextGen]_vars /\ FairDraws

\* the shortest calls that return: every matchable trial is flagged
ValueInputs == {<<n, n + MinRequest>> : n \in {MIN_LEVEL, MIN_LEVEL + 1}}

InitGenValues ==
    /\ Constructed
    /\ \E c \in ValueInputs : gen = GenCall(c[1], c[2])

NextGenValues ==
    \/ NextGen
    \/ GenerateTrialAnyPosition
    \/ GenerateTrialAnyLetter

\* the generator with every value draw of the first and the last trial
SpecGenValues == InitGenValues /\ [][NextGenValues]_vars

\* arguments outside the contract: totalTrials <= n or n <= 0
MalformedInputs ==
    {c \in ((-1)..GenMaxLag) \X (0..MinRequest) : c[2] <= c[1] \/ c[1] <= 0}

InitGenMalformed ==
    /\ Constructed
    /\ \E c \in MalformedInputs : gen = GenCall(c[1], c[2])

SpecGenMalformed == InitGenMalformed /\ [][NextGen]_vars

---------------------------------------------------------------------------
(* calculateScores(sequence, responses, nLevel) *)

\* the length of the argument lists the scorer is explored on
ScoreMaxLen == 3

\* a response field: null (unset), true or false
TriState == {"null", "true", "false"}

ResponseSlots == [position : TriState, audio : TriState]

\* response.position === true with === for !==false
respondedUnlessFalse(value) == value # "false"

\* response.position === true (lines 460-461)
responded(value) == value = "true"

zeroStats == [tp |-> 0, fp |-> 0, fn |-> 0]

\* countTrial with the true-positive and false-negative counters exchanged
countTrialSwapped(stats, wasMatch, hasResponded) ==
    IF wasMatch /\ hasResponded THEN [stats EXCEPT !.fn = @ + 1]
    ELSE IF ~wasMatch /\ hasResponded THEN [stats EXCEPT !.fp = @ + 1]
    ELSE IF wasMatch /\ ~hasResponded THEN [stats EXCEPT !.tp = @ + 1]
    ELSE stats

\* the if-chain of one channel (lines 464-470 and 474-480)
countTrial(stats, wasMatch, hasResponded) ==
    IF wasMatch /\ hasResponded THEN [stats EXCEPT !.tp = @ + 1]
    ELSE IF ~wasMatch /\ hasResponded THEN [stats EXCEPT !.fp = @ + 1]
    ELSE IF wasMatch /\ ~hasResponded THEN [stats EXCEPT !.fn = @ + 1]
    ELSE stats

\* the loop of lines 454-482 from index i on
RECURSIVE scoreLoop(_, _, _, _, _)
scoreLoop(seq, resp, i, position, audio) ==
    IF i < Len(seq)
    THEN IF i < 0 \/ i >= Len(resp)
         THEN \* sequence[i] or responses[i] is undefined: reading a property
              \* of it (lines 456, 460) throws a TypeError
              [position |-> position, audio |-> audio, thrown |-> TRUE]
         ELSE LET wasPositionMatch == At(seq, i).isPositionMatch
                  wasAudioMatch == At(seq, i).isAudioMatch
                  response == At(resp, i)
                  respondedPosition == responded(response.position)
                  respondedAudio == responded(response.audio)
              IN scoreLoop(seq, resp, i + 1,
                           countTrial(position, wasPositionMatch, respondedPosition),
                           countTrial(audio, wasAudioMatch, respondedAudio))
    ELSE [position |-> position, audio |-> audio, thrown |-> FALSE]

\* calcPct (lines 485-488); the quotient is taken exactly
calcPct(stats) ==
    LET denom == stats.tp + stats.fp + stats.fn
    IN IF denom = 0 THEN 0 ELSE MathRound(100 * stats.tp, denom)

\* scoresOf with the overall numerator taken from the position channel alone
scoresOfPositionHits(position, audio) ==
    LET overallDenom == position.tp + position.fp + position.fn
                        + audio.tp + audio.fp + audio.fn
    IN [positionPct |-> calcPct(position),
        audioPct |-> calcPct(audio),
        overallPct |-> IF overallDenom = 0 THEN 0
                       ELSE MathRound(100 * position.tp, overallDenom)]

\* lines 490-497
scoresOf(position, audio) ==
    LET overallDenom == position.tp + position.fp + position.fn
                        + audio.tp + audio.fp + audio.fn
    IN [positionPct |-> calcPct(position),
        audioPct |-> calcPct(audio),
        overallPct |-> IF overallDenom = 0 THEN 0
                       ELSE MathRound(100 * (position.tp + audio.tp), overallDenom)]

\* calculateScores with the loop started at index 0
calculateScoresFromZero(seq, resp, n) ==
    LET counted == scoreLoop(seq, resp, 0, zeroStats, zeroStats)
    IN scoresOf(counted.position, counted.audio)

\* calculateScores with the loop started one index early
calculateScoresFromBefore(seq, resp, n) ==
    LET counted == scoreLoop(seq, resp, n - 1, zeroStats, zeroStats)
    IN scoresOf(counted.position, counted.audio)

\* calculateScores with the position counters kept between calls: a call
\* made once scores are shown starts with one true positive
calculateScoresKeepingCounts(seq, resp, n) ==
    LET kept == IF scores.overallPct < 0 THEN zeroStats ELSE [zeroStats EXCEPT !.tp = 1]
        counted == scoreLoop(seq, resp, n, kept, zeroStats)
    IN scoresOf(counted.position, counted.audio)

calculateScores(seq, resp, n) ==
    LET counted == scoreLoop(seq, resp, n, zeroStats, zeroStats)
    IN scoresOf(counted.position, counted.audio)

\* the call ends with a TypeError instead of a return value
calculateScoresThrows(seq, resp, n) ==
    scoreLoop(seq, resp, n, zeroStats, zeroStats).thrown

\* the loop of the earlier scorer (part_000, lines 327-354) from index i on:
\* the matches are recomputed from the values of trial i and trial i - nLevel
RECURSIVE scoreLoopByValues(_, _, _, _, _, _)
scoreLoopByValues(history, resp, n, i, position, audio) ==
    IF i < Len(history)
    THEN IF i < 0 \/ i >= Len(resp) \/ i - n < 0 \/ i - n >= Len(history)
         THEN \* history[i], history[i - nLevel] or responses[i] is undefined
              [position |-> position, audio |-> audio, thrown |-> TRUE]
         ELSE LET wasPositionMatch == At(history, i).position = At(history, i - n).position
                  wasAudioMatch == At(history, i).letter = At(history, i - n).letter
                  response == At(resp, i)
                  respondedPosition == responded(response.position)
                  respondedAudio == responded(response.audio)
              IN scoreLoopByValues(history, resp, n, i + 1,
                                   countTrial(position, wasPositionMatch, respondedPosition),
                                   countTrial(audio, wasAudioMatch, respondedAudio))
    ELSE [position |-> position, audio |-> audio, thrown |-> FALSE]

\* calculateScores(history, responses, nLevel) of part_000 (lines 323-370)
calculateScoresByValues(history, resp, n) ==
    LET counted == scoreLoopByValues(history, resp, n, n, zeroStats, zeroStats)
    IN scoresOf(counted.position, counted.audio)

\* const scores = calculateScores(sequence, responses, nLevel)  (line 533)
CalculateScores ==
    /\ scores = NoScores
    /\ IF calculateScoresThrows(sequence, responses, nLevel)
       THEN uncaught' = "TypeError" /\ UNCHANGED scores
       ELSE scores' = calculateScores(sequence, responses, nLevel) /\ UNCHANGED uncaught
    /\ UNCHANGED <<nLevel, numTrials, sequence, responses, levelUpMessage, gen,
                   sessionVars, audioVars, storeVars>>

\* A sequence of len stimuli of lag n flagged on the index sets pos and aud,
\* with values as buildGameSequence can draw them: a flagged trial copies the
\* value of n trials earlier, any other trial takes the next value.
plannedSequence(n, len, pos, aud) ==
    LET cell[i \in 0..(len - 1)] ==
            IF i < n THEN 0
            ELSE IF i \in pos THEN cell[i - n]
            ELSE (cell[i - n] + 1) % GRID_CELLS
        letterIndex[i \in 0..(len - 1)] ==
            IF i < n THEN 0
            ELSE IF i \in aud THEN letterIndex[i - n]
            ELSE (letterIndex[i - n] + 1) % Len(letters)
    IN [k \in 1..len |->
           [position |-> cell[k - 1], letter |-> At(letters, letterIndex[k - 1]),
            isPositionMatch |-> (k - 1) \in pos,
            isAudioMatch |-> (k - 1) \in aud]]

\* the arguments calculateScores is called on: every lag n, every length up
\* to ScoreMaxLen, every flagging of the trials from n on, every response list
\* of the same length
InitScore ==
    /\ numTrials = 20
    /\ scores = NoScores
    /\ levelUpMessage = "none"
    /\ gen = GenIdle
    /\ NoSession
    /\ NoStatsCalls
    /\ stored = NoRecord
    /\ \E len \in 2..ScoreMaxLen :
         /\ nLevel \in 1..(len - 1)
         /\ \E pos \in SUBSET (nLevel..(len - 1)), aud \in SUBSET (nLevel..(len - 1)) :
              sequence = plannedSequence(nLevel, len, pos, aud)
         /\ responses \in [1..len -> ResponseSlots]

\* a second call with the same arguments, once the first has returned
CalculateScoresAgain ==
    /\ scores # NoScores
    /\ ~calculateScoresThrows(sequence, responses, nLevel)
    /\ scores' = calculateScores(sequence, responses, nLevel)
    /\ UNCHANGED <<nLevel, numTrials, sequence, responses, levelUpMessage, gen, appVars>>

NextScore == CalculateScores \/ CalculateScoresAgain

SpecScore == InitScore /\ [][NextScore]_vars

\* the slots handleInput can leave: each field unset or true
InputSlots == [position : {"null", "true"}, audio : {"null", "true"}]

\* the response lists the scorer is applied to on a generated sequence: the
\* slots handleInput can leave, repeated with period ResponsePeriod
ResponsePeriod == 2

ScoreResponses(len) ==
    {[k \in 1..len |-> pattern[((k - 1) % ResponsePeriod) + 1]] :
        pattern \in [1..ResponsePeriod -> InputSlots]}

\* sequence = buildGameSequence(n, totalTrials) has returned (line 312); the
\* session ends with some response list and endGame scores it (line 533)
ScoreReturned ==
    /\ gen.pc = "returned"
    /\ scores = NoScores
    /\ \E resp \in ScoreResponses(Len(gen.seq)) :
         /\ sequence' = gen.seq
         /\ responses' = resp
         /\ scores' = calculateScores(gen.seq, resp, gen.n)
    /\ UNCHANGED <<nLevel, numTrials, levelUpMessage, gen, appVars>>

NextGenScore == NextGen \/ ScoreReturned

\* the generator followed by the scorer
SpecGenScore == InitGen /\ [][NextGenScore]_vars

\* calculateScores called on a response list one shorter or one longer than
\* the sequence
InitScoreLengths ==
    /\ numTrials = 20
    /\ scores = NoScores
    /\ levelUpMessage = "none"
    /\ gen = GenIdle
    /\ NoSession
    /\ NoStatsCalls
    /\ stored = NoRecord
    /\ \E len \in 2..ScoreMaxLen :
         /\ nLevel \in 1..(len - 1)
         /\ \E pos \in SUBSET (nLevel..(len - 1)), aud \in SUBSET (nLevel..(len - 1)) :
              sequence = plannedSequence(nLevel, len, pos, aud)
         /\ \E other \in {len - 1, len + 1} : responses \in [1..other -> InputSlots]

SpecScoreLengths == InitScoreLengths /\ [][NextScore]_vars

---------------------------------------------------------------------------
(* The level controller: adjustN(delta) and updateResultsUI(scores) *)

\* adjustN is explored for every delta in -LevelMaxDelta..LevelMaxDelta
LevelMaxDelta == 2
\* updateResultsUI is explored on the scores of every pair of channel counters
\* with tp, fp, fn <= LevelMaxCount
LevelMaxCount == 2

\* adjustN without the clamp
adjustedLevelUnclamped(n, delta) == n + delta

\* Math.max(1, Math.min(9, nLevel + delta))  (line 281)
adjustedLevel(n, delta) == Max(MIN_LEVEL, Min(MAX_LEVEL, n + delta))

AdjustN(delta) ==
    /\ nLevel' = adjustedLevel(nLevel, delta)
    /\ UNCHANGED <<numTrials, sequence, responses, scores, levelUpMessage, gen, appVars>>

\* levelChange without the level-down branch
levelChangeUpOnly(overallPct, n) ==
    IF overallPct >= LEVEL_UP_THRESHOLD /\ n < MAX_LEVEL THEN "level-up"
    ELSE "none"

\* the branch updateResultsUI takes (lines 513, 519, 525)
levelChange(overallPct, n) ==
    IF overallPct >= LEVEL_UP_THRESHOLD /\ n < MAX_LEVEL THEN "level-up"
    ELSE IF overallPct < LEVEL_DOWN_THRESHOLD /\ n > MIN_LEVEL THEN "level-down"
    ELSE "none"

\* updateResultsUI(scores): shows the scores, moves nLevel, sets the message
UpdateResultsUI(s) ==
    LET change == levelChange(s.overallPct, nLevel) IN
    /\ scores' = s
    /\ nLevel' = CASE change = "level-up" -> nLevel + 1
                   [] change = "level-down" -> nLevel - 1
                   [] OTHER -> nLevel
    /\ levelUpMessage' = change
    /\ UNCHANGED <<numTrials, sequence, responses, gen, appVars>>

ChannelStats(max) == [tp : 0..max, fp : 0..max, fn : 0..max]

\* the scores a session can end with
SessionScores ==
    {scoresOf(position, audio) :
        position \in ChannelStats(LevelMaxCount), audio \in ChannelStats(LevelMaxCount)}

InitLevel == Constructed /\ gen = GenIdle

NextLevel ==
    \/ \E delta \in (-LevelMaxDelta)..LevelMaxDelta : AdjustN(delta)
    \/ \E s \in SessionScores : UpdateResultsUI(s)

SpecLevel == InitLevel /\ [][NextLevel]_vars

---------------------------------------------------------------------------
(* The stats record: getStats, saveStats, recordSession, renderStats *)

MAX_HISTORY == 30

\* recordSession is explored for StatsMaxSessions calls per page load
StatsMaxSessions == 2

\* the object getStats returns when it has nothing to read (lines 624-631);
\* null dates are 0, levels holds attempts = 0 for a key that is absent
DefaultStats ==
    [firstPlayed |-> 0, lastPlayed |-> 0, totalSessions |-> 0, totalTrials |-> 0,
     levels |-> [k \in MIN_LEVEL..MAX_LEVEL |-> [attempts |-> 0, totalScore |-> 0, bestScore |-> 0]],
     history |-> <<>>]

\* an item that JSON.parse rejects
Unparseable == [kind |-> "unparseable"]

\* a JSON object that is not a stats record, such as {"foreign": true}
ForeignObject == [foreign |-> TRUE]

\* JSON.stringify / JSON.parse: an item of JSON text is kept as the value it
\* denotes (the stats hold finite numbers, strings and arrays only)
JSONstringify(value) == [kind |-> "json", value |-> value]
JSONparse(item) == item.value

\* getStats(): the item is read unless getItem throws; a missing item and a
\* caught exception fall through to the default (lines 614-632)
getStats(item, getItemThrows) ==
    IF getItemThrows THEN DefaultStats
    ELSE IF item.kind = "missing" THEN DefaultStats
    ELSE IF item.kind = "unparseable" THEN DefaultStats
    ELSE JSONparse(item)

\* saveStats(stats): the item after the call (lines 634-640)
saveStats(item, stats, setItemThrows) ==
    IF setItemThrows THEN item ELSE JSONstringify(stats)

\* stats.levels[levelKey] on an object without levels throws a TypeError (line 658)
recordSessionThrows(stats) == "levels" \notin DOMAIN stats

\* a history entry that holds the level the controller moves to
historyEntryAfterAdjustment(level, sc, date) ==
    [date |-> date,
     nLevel |-> CASE levelChange(sc.overallPct, level) = "level-up" -> level + 1
                  [] levelChange(sc.overallPct, level) = "level-down" -> level - 1
                  [] OTHER -> level,
     positionPct |-> sc.positionPct, audioPct |-> sc.audioPct, overallPct |-> sc.overallPct]

\* the entry pushed on the history (lines 666-672)
historyEntry(level, sc, date) ==
    [date |-> date, nLevel |-> level, positionPct |-> sc.positionPct,
     audioPct |-> sc.audioPct, overallPct |-> sc.overallPct]

\* history.slice(-k)
sliceLast(h, k) == IF Len(h) > k THEN SubSeq(h, Len(h) - k + 1, Len(h)) ELSE h

\* trimmedKeepingOldest keeps the first MAX_HISTORY entries
trimmedKeepingOldest(h) ==
    IF Len(h) > MAX_HISTORY THEN SubSeq(h, 1, MAX_HISTORY) ELSE h

\* lines 675-677
trimmed(h) ==
    IF Len(h) > MAX_HISTORY THEN sliceLast(h, MAX_HISTORY) ELSE h

\* the stats object recordSession passes to saveStats (lines 647-677)
recordedStats(stats, level, sc, trials, date) ==
    [firstPlayed |-> IF stats.firstPlayed = 0 THEN date ELSE stats.firstPlayed,
     lastPlayed |-> date,
     totalSessions |-> stats.totalSessions + 1,
     totalTrials |-> stats.totalTrials + trials,
     levels |-> [stats.levels EXCEPT ![level] =
                    [attempts |-> @.attempts + 1,
                     totalScore |-> @.totalScore + sc.overallPct,
                     bestScore |-> Max(@.bestScore, sc.overallPct)]],
     history |-> trimmed(Append(stats.history, historyEntry(level, sc, date)))]

\* recordSession(level, sc, trials) at time date: the item, the exception and
\* the bookkeeping of the model it leaves
recordSession(item, level, sc, trials, date, getItemThrows, setItemThrows, log, lost) ==
    LET stats == getStats(item, getItemThrows) IN
    IF recordSessionThrows(stats)
    THEN [stored |-> item, thrown |-> TRUE, recorded |-> log, readLost |-> lost]
    ELSE [stored |-> saveStats(item, recordedStats(stats, level, sc, trials, date), setItemThrows),
          thrown |-> FALSE,
          recorded |-> IF setItemThrows THEN log
                       ELSE Append(log, historyEntry(level, sc, date)),
          readLost |-> lost \/ (getItemThrows /\ ~setItemThrows /\ item.kind = "json")]

\* recordSession(nLevel, scores, trials) as a call of its own
RecordSession(level, sc, trials) ==
    /\ starts < StatsMaxSessions
    /\ starts' = starts + 1
    /\ now' = now + 1
    /\ \E getItemThrows \in BOOLEAN, setItemThrows \in BOOLEAN :
         LET out == recordSession(stored, level, sc, trials, now', getItemThrows,
                                  setItemThrows, recorded, readLost)
         IN /\ stored' = out.stored
            /\ recorded' = out.recorded
            /\ readLost' = out.readLost
            /\ uncaught' = IF out.thrown THEN "TypeError" ELSE uncaught
    /\ UNCHANGED <<nLevel, numTrials, sequence, responses, scores, levelUpMessage, gen,
                   currentTrial, gameActive, stimulusShown, gameTimeout, timers,
                   starting, screen, activeCell, aborted, statsView, audioVars, playedLevel>>

\* toggleStats() opening the modal: renderStats() reads the record and, unless
\* totalSessions is 0, its history (lines 692-702)
RenderStats ==
    /\ \E getItemThrows \in BOOLEAN :
         LET stats == getStats(stored, getItemThrows)
         IN /\ statsView' = stats
            /\ uncaught' = IF "history" \notin DOMAIN stats THEN "TypeError" ELSE uncaught
    /\ UNCHANGED <<nLevel, numTrials, sequence, responses, scores, levelUpMessage, gen,
                   sessionVars, audioVars, stored, now, recorded, readLost>>

\* confirmClearStats(), confirmed: the item is removed and the modal re-rendered
ClearStats ==
    /\ stored' = NoRecord
    /\ recorded' = <<>>
    /\ statsView' = DefaultStats
    /\ UNCHANGED <<nLevel, numTrials, sequence, responses, scores, levelUpMessage, gen,
                   sessionVars, audioVars, now, readLost, uncaught>>

\* the record h sessions of level 2 that scored 0 on 20 trials leave behind
RECURSIVE statsAfter(_)
statsAfter(h) ==
    IF h = 0 THEN DefaultStats
    ELSE recordedStats(statsAfter(h - 1), 2, scoresOf(zeroStats, zeroStats), 20, h)

\* the scores the sessions of the stats calls end with
StatsScores ==
    {scoresOf(position, audio) :
        position \in {[zeroStats EXCEPT !.tp = 1], [zeroStats EXCEPT !.fn = 1]},
        audio \in {[zeroStats EXCEPT !.tp = 1], [zeroStats EXCEPT !.fn = 1]}}

\* The page is loaded on a record left by earlier visits: none, an
\* unparseable item, a foreign JSON object, or the record of h sessions for
\* h up to one more than the history retains.
InitStats ==
    /\ nLevel = 2
    /\ numTrials = 20
    /\ sequence = <<>>
    /\ responses = <<>>
    /\ scores = NoScores
    /\ levelUpMessage = "none"
    /\ gen = GenIdle
    /\ NoSession
    /\ statsView = NoRecord
    /\ readLost = FALSE
    /\ \/ /\ stored \in {NoRecord, Unparseable, JSONstringify(ForeignObject)}
          /\ now = 0
          /\ recorded = <<>>
       \/ \E h \in 1..(MAX_HISTORY + 1) :
            /\ stored = JSONstringify(statsAfter(h))
            /\ now = h
            /\ recorded = [k \in 1..h |-> historyEntry(2, scoresOf(zeroStats, zeroStats), k)]

NextStats ==
    \/ \E level \in {MIN_LEVEL, MAX_LEVEL}, sc \in StatsScores :
          RecordSession(level, sc, MIN_TRIALS)
    \/ RenderStats
    \/ ClearStats

SpecStats == InitStats /\ [][NextStats]_vars

---------------------------------------------------------------------------
(* The session: startGame, nextTrial and its timers, handleInput, exitGame, *)
(* endGame                                                                  *)

\* startGame is called at most MaxStarts times per page load
MaxStarts == 2
\* the player answers the last InputTrials trials of a session
InputTrials == 2
\* before the first start the player moves the level at most SettingsReach
\* clicks away from 2
SettingsReach == 1

\* pickRandomTrials(count, excludeSet) as a function of the draws: Math.random
\* yields r/m, (r+1)/m, ... until count indices are picked (lines 197-206)
RECURSIVE pickRandomTrials(_, _, _, _, _, _)
pickRandomTrials(n, m, count, excludeSet, picked, r) ==
    IF Len(picked) < count
    THEN LET trial == pickTrial(n, r % m)
         IN pickRandomTrials(n, m, count, excludeSet,
                IF pickAccepts(trial, excludeSet, picked) THEN Append(picked, trial) ELSE picked,
                r + 1)
    ELSE picked

\* buildGameSequence(n, totalTrials) for a configuration that is not
\* oversubscribed, with the index draws starting at r/m and the value draws
\* of plannedSequence
buildGameSequence(n, totalTrials, r) ==
    LET m == matchableTrials(n, totalTrials)
        posOnly == Range(pickRandomTrials(n, m, positionOnlyMatches(m), {}, <<>>, r))
        audOnly == Range(pickRandomTrials(n, m, audioOnlyMatches(m), posOnly, <<>>, r))
        dual == Range(pickRandomTrials(n, m, dualMatches(m), posOnly \cup audOnly, <<>>, r))
    IN plannedSequence(n, totalTrials, posOnly \cup dual, audOnly \cup dual)

\* the first draws of the sessions: the first matchable trial and the first
\* trial the player answers
SessionDraws(n, totalTrials) ==
    {0, Max(0, matchableTrials(n, totalTrials) - InputTrials)}

\* no handler runs while the thread is inside buildGameSequence
Responsive == gen.pc = "idle"

\* a click on a level button of the start screen
ClickAdjustN(delta) ==
    /\ Responsive
    /\ screen = "start-screen"
    /\ Abs(adjustedLevel(nLevel, delta) - 2) <= SettingsReach
    /\ AdjustN(delta)

\* Math.max(10, Math.min(50, numTrials + delta))  (line 286)
adjustedTrials(trials, delta) == Max(MIN_TRIALS, Min(MAX_TRIALS, trials + delta))

\* the trial counts the player moves between: the initial 20 and at most
\* TrialsReach below it
TrialsReach == 5

\* a click on a trial-count button of the start screen: adjustTrials(delta)
\* (lines 285-288)
ClickAdjustTrials(delta) ==
    /\ Responsive
    /\ screen = "start-screen"
    /\ 20 - adjustedTrials(numTrials, delta) \in 0..TrialsReach
    /\ numTrials' = adjustedTrials(numTrials, delta)
    /\ UNCHANGED <<nLevel, sequence, responses, scores, levelUpMessage, gen, appVars>>

\* the click on the start button: startGame() runs up to its await (line 309)
StartGame ==
    /\ Responsive
    /\ ~startBtn.disabled
    /\ screen = "start-screen"
    /\ starts < MaxStarts
    /\ starts' = starts + 1
    /\ starting' = starting + 1
    /\ aborted' = FALSE
    /\ UNCHANGED <<nLevel, numTrials, sequence, responses, scores, levelUpMessage, gen,
                   currentTrial, gameActive, stimulusShown, gameTimeout, timers,
                   screen, activeCell, storeVars, uncaught, audioVars, playedLevel>>

\* a response list one slot shorter than the sequence
blankResponsesShort(seq) ==
    [k \in 1..(Len(seq) - 1) |-> [position |-> "null", audio |-> "null"]]

\* sequence.map(() => ({ position: null, audio: null }))  (line 313)
blankResponses(seq) == [k \in 1..Len(seq) |-> [position |-> "null", audio |-> "null"]]

\* the pending timers with their handles renumbered 1..Cardinality(pending) in
\* the order in which they were set: a handle matters only through its
\* identity and its age
Renumbered(pending) ==
    {[id |-> Cardinality({u \in pending : u.id <= t.id}), kind |-> t.kind] : t \in pending}

\* the handles of k further setTimeout calls, younger than every pending one
NewTimerIds(pending, k) == (Cardinality(pending) + 1)..(Cardinality(pending) + k)

\* gameTimeout = setTimeout(callback, delay), k times in a row
SetGameTimeouts(pending, kind, k) ==
    /\ timers' = Renumbered(pending) \cup {[id |-> i, kind |-> kind] : i \in NewTimerIds(pending, k)}
    /\ gameTimeout' = Cardinality(pending) + k

SetGameTimeout(pending, kind) == SetGameTimeouts(pending, kind, 1)

\* audioCtx.resume() has resolved: every startGame call waiting at line 309
\* continues, one after the other with nothing in between (they wait for the
\* same state change of the one AudioContext), each running lines 311-321;
\* an oversubscribed configuration never leaves line 312
StartGameResume ==
    /\ Responsive
    /\ starting > 0
    /\ currentTrial' = 0
    /\ IF Oversubscribed(nLevel, numTrials)
       THEN /\ gen' = GenCall(nLevel, numTrials)
            /\ starting' = starting - 1
            /\ UNCHANGED <<sequence, responses, gameActive, screen, gameTimeout, timers,
                           playedLevel>>
       ELSE /\ \E r \in SessionDraws(nLevel, numTrials) :
                 sequence' = buildGameSequence(nLevel, numTrials, r)
            /\ playedLevel' = nLevel
            /\ responses' = blankResponses(sequence')
            /\ gameActive' = TRUE
            /\ screen' = "game-screen"
            /\ SetGameTimeouts(timers, "nextTrial", starting)
            /\ starting' = 0
            /\ UNCHANGED gen
    /\ UNCHANGED <<nLevel, numTrials, scores, levelUpMessage, stimulusShown, activeCell,
                   starts, aborted, storeVars, uncaught, audioVars>>

\* endGame() (lines 530-538), called by nextTrial with the timers in pending;
\* sc is the constant scores, out the outcome of recordSession
endGame(pending) ==
    /\ gameActive' = FALSE
    /\ timers' = pending
    /\ IF calculateScoresThrows(sequence, responses, nLevel)
       THEN /\ uncaught' = "TypeError"
            /\ UNCHANGED <<scores, nLevel, levelUpMessage, screen, storeVars>>
       ELSE /\ now' = now + 1
            /\ \E sc \in {calculateScores(sequence, responses, nLevel)} :
               \E getItemThrows \in BOOLEAN, setItemThrows \in BOOLEAN :
               \E out \in {recordSession(stored, nLevel, sc, numTrials, now + 1,
                                         getItemThrows, setItemThrows, recorded, readLost)} :
                  /\ stored' = out.stored
                  /\ recorded' = out.recorded
                  /\ readLost' = out.readLost
                  /\ IF out.thrown
                     THEN /\ uncaught' = "TypeError"
                          /\ UNCHANGED <<scores, nLevel, levelUpMessage, screen>>
                     ELSE /\ scores' = sc
                          /\ nLevel' = CASE levelChange(sc.overallPct, nLevel) = "level-up" -> nLevel + 1
                                         [] levelChange(sc.overallPct, nLevel) = "level-down" -> nLevel - 1
                                         [] OTHER -> nLevel
                          /\ levelUpMessage' = levelChange(sc.overallPct, nLevel)
                          /\ screen' = "start-screen"
                          /\ UNCHANGED uncaught
            /\ UNCHANGED statsView
    /\ UNCHANGED <<currentTrial, stimulusShown, activeCell, gameTimeout>>

\* nextTrial() (lines 324-354), called with the timers in pending
nextTrial(pending) ==
    IF currentTrial >= numTrials
    THEN endGame(pending)
    ELSE /\ currentTrial' = currentTrial + 1
         /\ IF currentTrial < Len(sequence)
            THEN /\ activeCell' = At(sequence, currentTrial).position
                 /\ stimulusShown' = TRUE
                 /\ SetGameTimeout(pending, "hide")
                 /\ UNCHANGED uncaught
            ELSE /\ uncaught' = "TypeError"
                 /\ timers' = pending
                 /\ UNCHANGED <<activeCell, stimulusShown, gameTimeout>>
         /\ UNCHANGED <<gameActive, scores, nLevel, levelUpMessage, screen, storeVars>>

\* the delays of the three setTimeout calls, in ms (lines 321, 340, 345)
delay(kind) ==
    CASE kind = "nextTrial" -> 1000
      [] kind = "hide" -> 500
      [] kind = "gap" -> 2000

\* a timer runs only after every timer that was set before it with an equal or
\* shorter delay; beyond that the order of the callbacks is the browser's
Due(t) == \A u \in timers : u.id < t.id => delay(u.kind) > delay(t.kind)

\* the timer of line 321 fires: nextTrial runs, whatever gameActive is
TimerNextTrial ==
    /\ Responsive
    /\ \E t \in timers :
         /\ t.kind = "nextTrial"
         /\ Due(t)
         /\ nextTrial(timers \ {t})
    /\ UNCHANGED <<numTrials, sequence, responses, gen, starting, starts, aborted, audioVars, playedLevel>>

\* the 500 ms timer of line 340 fires (lines 341-345)
TimerHide ==
    /\ Responsive
    /\ \E t \in timers :
         /\ t.kind = "hide"
         /\ Due(t)
         /\ IF ~gameActive
            THEN /\ timers' = timers \ {t}
                 /\ UNCHANGED <<activeCell, stimulusShown, gameTimeout>>
            ELSE /\ activeCell' = -1
                 /\ stimulusShown' = FALSE
                 /\ SetGameTimeout(timers \ {t}, "gap")
    /\ UNCHANGED <<nLevel, numTrials, sequence, responses, scores, levelUpMessage, gen,
                   currentTrial, gameActive, starting, screen, starts, aborted,
                   storeVars, uncaught, audioVars, playedLevel>>

\* evaluateTrialFeedback(trialIndex) reads sequence[trialIndex] and
\* responses[trialIndex] when trialIndex >= nLevel (lines 400-405)
evaluateTrialFeedbackThrows(trialIndex) ==
    trialIndex >= nLevel /\ (trialIndex >= Len(sequence) \/ trialIndex >= Len(responses))

\* the 2000 ms timer of line 345 fires (lines 346-351)
TimerGap ==
    /\ Responsive
    /\ \E t \in timers :
         /\ t.kind = "gap"
         /\ Due(t)
         /\ IF ~gameActive
            THEN /\ timers' = timers \ {t}
                 /\ UNCHANGED <<currentTrial, gameActive, stimulusShown, gameTimeout,
                                activeCell, scores, nLevel, levelUpMessage, screen,
                                storeVars, uncaught>>
            ELSE IF evaluateTrialFeedbackThrows(currentTrial - 1)
            THEN /\ timers' = timers \ {t}
                 /\ uncaught' = "TypeError"
                 /\ UNCHANGED <<currentTrial, gameActive, stimulusShown, gameTimeout,
                                activeCell, scores, nLevel, levelUpMessage, screen,
                                storeVars>>
            ELSE nextTrial(timers \ {t})
    /\ UNCHANGED <<numTrials, sequence, responses, gen, starting, starts, aborted, audioVars, playedLevel>>

Directions == {"left", "right", "up", "down"}

\* the switch of handleInput on one response slot; left and right clear the
\* other field
handleInputExclusive(slot, direction) ==
    CASE direction = "left" -> [position |-> "true", audio |-> "null"]
      [] direction = "right" -> [position |-> "null", audio |-> "true"]
      [] direction = "up" -> [position |-> "true", audio |-> "true"]
      [] direction = "down" -> [position |-> "null", audio |-> "null"]

\* the switch of handleInput on one response slot (lines 376-395)
handleInput(slot, direction) ==
    CASE direction = "left" -> [slot EXCEPT !.position = "true"]
      [] direction = "right" -> [slot EXCEPT !.audio = "true"]
      [] direction = "up" -> [slot EXCEPT !.position = "true", !.audio = "true"]
      [] direction = "down" -> [slot EXCEPT !.position = "null", !.audio = "null"]

\* responseIndex taken as the trial about to be shown
responseIndexNext(trial) == trial

\* const responseIndex = currentTrial - 1  (line 371)
responseIndex(trial) == trial - 1

\* the trials the player answers
InputWindow == (Len(responses) - InputTrials)..(Len(responses) - 1)

\* a guard that tests only whether a stimulus has been shown
handleInputReturnsUnshown(active, trial) == trial = 0

\* if (!gameActive || currentTrial === 0) return  (line 367)
handleInputReturns(active, trial) == ~active \/ trial = 0

\* handleInput(direction), from a swipe or an arrow key
HandleInput(direction) ==
    /\ Responsive
    /\ IF handleInputReturns(gameActive, currentTrial)
       THEN UNCHANGED <<responses, uncaught>>
       ELSE LET index == responseIndex(currentTrial) IN
            IF 0 <= index /\ index < Len(responses)
            THEN /\ \/ index \in InputWindow
                    \/ handleInput(At(responses, index), direction) = At(responses, index)
                 /\ responses' = [responses EXCEPT ![index + 1] = handleInput(@, direction)]
                 /\ UNCHANGED uncaught
            ELSE /\ uncaught' = "TypeError"
                 /\ UNCHANGED responses
    /\ UNCHANGED <<nLevel, numTrials, sequence, scores, levelUpMessage, gen,
                   sessionVars, audioVars, storeVars>>

\* exitGame() (lines 295-303), from the exit button or the Escape key
ExitGame ==
    /\ Responsive
    /\ screen = "game-screen"
    /\ gameActive' = FALSE
    /\ IF gameTimeout # 0
       THEN /\ timers' = {t \in timers : t.id # gameTimeout}
            /\ gameTimeout' = 0
       ELSE UNCHANGED <<timers, gameTimeout>>
    /\ activeCell' = -1
    /\ screen' = "start-screen"
    /\ aborted' = TRUE
    /\ UNCHANGED <<nLevel, numTrials, sequence, responses, scores, levelUpMessage, gen,
                   currentTrial, stimulusShown, starting, starts, storeVars, uncaught, audioVars, playedLevel>>

\* the page after load, with whatever localStorage holds under STATS_KEY
Init ==
    /\ ScriptLoaded
    /\ stored \in {NoRecord, Unparseable, JSONstringify(ForeignObject),
                   JSONstringify(DefaultStats)}
    /\ gen = GenIdle

Next ==
    \/ \E delta \in {-1, 1} : ClickAdjustN(delta)
    \/ StartGame
    \/ StartGameResume
    \/ TimerNextTrial
    \/ TimerHide
    \/ TimerGap
    \/ \E direction \in Directions : HandleInput(direction)
    \/ ExitGame

Spec == Init /\ [][Next]_vars

\* a pending timer eventually fires
FairTimers ==
    /\ WF_vars(TimerNextTrial)
    /\ WF_vars(TimerHide)
    /\ WF_vars(TimerGap)

\* the presentation loop by itself: sessions started, played and left at the
\* initial settings, without gestures
NextLoop ==
    \/ StartGame
    \/ StartGameResume
    \/ TimerNextTrial
    \/ TimerHide
    \/ TimerGap
    \/ ExitGame

SpecFair == Init /\ [][NextLoop]_vars /\ FairTimers

\* the page on a first visit, with the trial-count buttons in use as well
InitTrials == Constructed /\ gen = GenIdle

NextTrials ==
    \/ Next
    \/ \E delta \in {-5, 5} : ClickAdjustTrials(delta)

SpecTrials == InitTrials /\ [][NextTrials]_vars

(***************************************************************************)
(* The audio assets: loadAudioFiles (lines 51-106), called once at the end *)
(* of the script (line 777).  Each letter's fetch and decode either        *)
(* succeeds or throws inside the try block of lines 62-85.                 *)
(***************************************************************************)

\* one iteration of the loop over the letters (lines 61-86)
LoadLetter ==
    /\ load.pc = "loading"
    /\ load.index < Len(letters)
    /\ \E ok \in BOOLEAN :
           load' = [load EXCEPT !.index = @ + 1,
                                !.loaded = IF ok THEN @ + 1 ELSE @,
                                !.failed = IF ok THEN @
                                           ELSE Append(@, At(letters, load.index))]
    /\ UNCHANGED <<nLevel, numTrials, sequence, responses, scores, levelUpMessage, gen,
                   sessionVars, storeVars, uncaught, audioLoaded, startBtn>>

\* a threshold of two thirds of the alphabet instead of one half
loadedEnoughTwoThirds(loaded) == 3 * loaded >= 2 * Len(letters)

\* loaded >= letters.length / 2  (line 93)
loadedEnough(loaded) == 2 * loaded >= Len(letters)

\* the code after the loop (lines 88-105)
LoadFinish ==
    /\ load.pc = "loading"
    /\ load.index = Len(letters)
    /\ IF Len(load.failed) > 0
       THEN IF loadedEnough(load.loaded)
            THEN /\ audioLoaded' = TRUE
                 /\ startBtn' = [startBtn EXCEPT !.disabled = FALSE]
            ELSE UNCHANGED <<audioLoaded, startBtn>>
       ELSE /\ audioLoaded' = TRUE
            /\ startBtn' = [startBtn EXCEPT !.disabled = FALSE]
    /\ load' = [load EXCEPT !.pc = "done"]
    /\ UNCHANGED <<nLevel, numTrials, sequence, responses, scores, levelUpMessage, gen,
                   sessionVars, storeVars, uncaught>>

\* the page when loadAudioFiles is called: nothing decoded yet, the start
\* button still disabled
InitAudio ==
    /\ PageLoaded
    /\ stored = NoRecord
    /\ gen = GenIdle
    /\ audioLoaded = FALSE
    /\ startBtn = [disabled |-> TRUE]
    /\ load = LoadStarted

NextAudio ==
    \/ LoadLetter
    \/ LoadFinish
    \/ StartGame

SpecAudio == InitAudio /\ [][NextAudio]_vars

\* the keys of audioBuffers: the letters whose iteration reached
\* audioBuffers.set(letter, audioBuffer)  (line 78)
audioBuffers ==
    {At(letters, k) : k \in 0..(load.index - 1)} \ Range(load.failed)

\* playLetter(letter) gets past its guard and starts a buffer source (lines
\* 108-124); audioCtx exists once a letter was decoded or initAudio has run
playLetterEmits(letter) == letter \in audioBuffers

\* the audio loading followed by the sessions the start button allows
NextAudioSession ==
    \/ LoadLetter
    \/ LoadFinish
    \/ StartGame
    \/ StartGameResume
    \/ TimerNextTrial
    \/ TimerHide
    \/ TimerGap

SpecAudioSession == InitAudio /\ [][NextAudioSession]_vars

Returned == gen.pc = "returned"

GenConfig == <<gen.n, gen.totalTrials>>

\* the indices where a match against i - n is possible
Matchable == gen.n..(gen.totalTrials - 1)

\* entry i of the returned sequence
Stim(i) == At(gen.seq, i)

PositionOnlyTrials == {i \in Matchable : Stim(i).isPositionMatch /\ ~Stim(i).isAudioMatch}
AudioOnlyTrials == {i \in Matchable : Stim(i).isAudioMatch /\ ~Stim(i).isPositionMatch}
DualTrials == {i \in Matchable : Stim(i).isPositionMatch /\ Stim(i).isAudioMatch}

\* k is num/den rounded to the nearest integer, halves up
IsRound(k, num, den) == 2 * den * k <= 2 * num + den /\ 2 * num + den < 2 * den * (k + 1)

\* round(pct% of m), m >= 0
Share(pct, m) == CHOOSE k \in 0..m : IsRound(k, pct * m, 100)

\* C1: for every configuration of the settings surface the index-selection
\* loop can finish: while pickRandomTrials still needs an index, an index it
\* accepts is left in [n, totalTrials) (otherwise line 199 retries forever).
C1_SelectionCanFinish ==
    (GenConfig \in SettingsConfigs /\ InPick /\ Len(gen.picked) < PickCount)
        => \E t \in Matchable : t \notin PickExclude /\ t \notin Range(gen.picked)

\* C2: in a returned sequence, for n <= i < totalTrials, isPositionMatch[i]
\* iff position[i] = position[i-n] and isAudioMatch[i] iff
\* letter[i] = letter[i-n].
C2_FlagsAgreeWithValues ==
    Returned =>
        \A i \in Matchable :
            /\ Stim(i).isPositionMatch <=> (Stim(i).position = Stim(i - gen.n).position)
            /\ Stim(i).isAudioMatch <=> (Stim(i).letter = Stim(i - gen.n).letter)

\* a returned sequence with a planned match and a planned non-match on each channel
C2_Witness ==
    /\ Returned
    /\ \E i, j \in Matchable : Stim(i).isPositionMatch /\ ~Stim(j).isPositionMatch
    /\ \E i, j \in Matchable : Stim(i).isAudioMatch /\ ~Stim(j).isAudioMatch

\* C3: the returned sequence has exactly totalTrials entries and its first n
\* entries have isPositionMatch = false and isAudioMatch = false.
C3_LengthAndUnflaggedPrefix ==
    Returned =>
        /\ Len(gen.seq) = gen.totalTrials
        /\ \A i \in 0..(gen.n - 1) : ~Stim(i).isPositionMatch /\ ~Stim(i).isAudioMatch

\* a returned sequence of lag 2, whose prefix has two entries
C3_Witness == Returned /\ gen.n = 2 /\ Len(gen.seq) = gen.totalTrials

\* C4: with matchable = totalTrials - n, a returned sequence has exactly
\* max(2, round(0.20*matchable)) position-only trials, as many audio-only
\* trials and exactly max(1, round(0.10*matchable)) dual trials, on three
\* pairwise disjoint index sets.
C4_ExactMatchCounts ==
    Returned =>
        LET p == Share(20, GenMatchable)
            d == Share(10, GenMatchable)
            positionOnly == PositionOnlyTrials
            audioOnly == AudioOnlyTrials
            dual == DualTrials
        IN /\ Cardinality(positionOnly) = Max(2, p)
           /\ Cardinality(audioOnly) = Max(2, p)
           /\ Cardinality(dual) = Max(1, d)
           /\ positionOnly \cap audioOnly = {}
           /\ positionOnly \cap dual = {}
           /\ audioOnly \cap dual = {}

\* a returned sequence that also has a trial matching on neither channel
C4_Witness ==
    /\ Returned
    /\ \E i \in Matchable : ~Stim(i).isPositionMatch /\ ~Stim(i).isAudioMatch
    /\ Cardinality(DualTrials) = 1

\* C5 as stated: for a configuration of the settings surface, the number of
\* trials flagged isPositionMatch is within 1 of round(0.20*matchable), the
\* audio-only count within 1 of round(0.20*matchable) and the dual count
\* within 1 of round(0.10*matchable).
C5_FlaggedCountNearShare ==
    (Returned /\ GenConfig \in SettingsConfigs) =>
        LET p == Share(20, GenMatchable)
            d == Share(10, GenMatchable)
        IN /\ Abs(Cardinality({i \in Matchable : Stim(i).isPositionMatch}) - p) <= 1
           /\ Abs(Cardinality(AudioOnlyTrials) - p) <= 1
           /\ Abs(Cardinality(DualTrials) - d) <= 1

\* C5 amended: when at least 5 trials are matchable, the number of
\* position-only trials is within 1 of round(0.20*matchable), the audio-only
\* count within 1 of round(0.20*matchable) and the dual count within 1 of
\* round(0.10*matchable).
C5_OnlyCountsNearShare ==
    (Returned /\ GenMatchable >= 5) =>
        LET p == Share(20, GenMatchable)
            d == Share(10, GenMatchable)
        IN /\ Abs(Cardinality(PositionOnlyTrials) - p) <= 1
           /\ Abs(Cardinality(AudioOnlyTrials) - p) <= 1
           /\ Abs(Cardinality(DualTrials) - d) <= 1

\* a sequence returned for a configuration of the settings surface
C5_Witness == Returned /\ GenConfig \in SettingsConfigs /\ Cardinality(PositionOnlyTrials) = 2

\* the call in progress has malformed arguments
GenMalformed == gen.pc # "idle" /\ (gen.totalTrials <= gen.n \/ gen.n <= 0)

\* pickRandomTrials still needs an index and no index it accepts can be drawn
SelectionStuck ==
    /\ InPick
    /\ Len(gen.picked) < PickCount
    /\ \A r \in RandomFloor(GenMatchable) :
           ~pickAccepts(pickTrial(gen.n, r), PickExclude, gen.picked)

\* C14: buildGameSequence called with totalTrials <= n or n <= 0 fails fast:
\* it neither returns a sequence nor gets caught in the selection loop.
C14_MalformedFailsFast == GenMalformed => ~Returned /\ ~SelectionStuck

---------------------------------------------------------------------------
(* Termination of the index selection, under SpecGenFair *)

EnoughMatchable == gen.n >= 1 /\ gen.totalTrials - gen.n >= MinRequest

\* C26: a call with n >= 1 and at least 5 matchable trials returns under
\* fair draws, and when it has returned the position-only, the audio-only
\* and the dual index set are each non-empty, so the sequence has a position
\* match and an audio match. For every number m >= 5 of matchable trials the
\* settings allow, the three requests together do not exceed m.
C26_SelectionTerminatesNonEmpty ==
    /\ [](EnoughMatchable => <>Returned)
    /\ [](\A m \in MinRequest..(MAX_TRIALS - MIN_LEVEL) :
             positionOnlyMatches(m) + audioOnlyMatches(m) + dualMatches(m) <= m)
    /\ []((EnoughMatchable /\ Returned) =>
             /\ PositionOnlyTrials # {}
             /\ AudioOnlyTrials # {}
             /\ DualTrials # {}
             /\ \E i \in Matchable : Stim(i).isPositionMatch
             /\ \E i \in Matchable : Stim(i).isAudioMatch)

\* a call with exactly 5 matchable trials has returned: every one of them
\* had to be drawn
C26_Witness ==
    /\ Returned
    /\ gen.totalTrials - gen.n = MinRequest
    /\ Cardinality(PositionOnlyTrials) = 2
    /\ Cardinality(AudioOnlyTrials) = 2
    /\ Cardinality(DualTrials) = 1

---------------------------------------------------------------------------
(* Properties of the scorer on generated sequences, under SpecGenScore *)

\* C31: on every sequence buildGameSequence returns and every response list
\* of its length, the scorer that reads the match flags returns the same three
\* percentages as the scorer that compares position[i] with position[i-n] and
\* letter[i] with letter[i-n], and neither ends in an exception.
C31_FlagScorerEqualsValueScorer ==
    (Returned /\ scores # NoScores) =>
        /\ sequence = gen.seq
        /\ scores = calculateScores(sequence, responses, gen.n)
        /\ scores = calculateScoresByValues(sequence, responses, gen.n)
        /\ ~calculateScoresThrows(sequence, responses, gen.n)
        /\ ~scoreLoopByValues(sequence, responses, gen.n, gen.n, zeroStats, zeroStats).thrown

\* a scored sequence with a false positive, a hit and a miss on the position
\* channel and an audio score strictly between 0 and 100
C31_Witness ==
    /\ Returned
    /\ scores # NoScores
    /\ \E i, j, k \in Matchable :
          /\ ~Stim(i).isPositionMatch /\ At(responses, i).position = "true"
          /\ Stim(j).isPositionMatch /\ At(responses, j).position = "true"
          /\ Stim(k).isPositionMatch /\ At(responses, k).position = "null"
    /\ scores.audioPct \in 1..99

---------------------------------------------------------------------------
(* Properties of the value loop, under SpecGenValues *)

Cells == 0..(GRID_CELLS - 1)
Alphabet == Range(letters)

\* the value loop is about to generate trial i, a trial from n on
ValueTrial == Len(gen.positions)
InValueLoop == gen.pc = "values" /\ ValueTrial < gen.totalTrials /\ ValueTrial >= gen.n

\* C25: every generated position is a cell 0..8 and every generated letter
\* is in the active alphabet; randomExcluding(max, exclude) ranges over
\* exactly 0..max-1 without exclude; and for a trial i >= n that is not a
\* match the values the generator can push are exactly the domain without
\* the value of trial i - n.
C25_ValuesInDomainWithoutPrevious ==
    /\ \A k \in 1..Len(gen.positions) :
           gen.positions[k] \in Cells /\ gen.letterSeq[k] \in Alphabet
    /\ Returned =>
           \A i \in 0..(gen.totalTrials - 1) :
               Stim(i).position \in Cells /\ Stim(i).letter \in Alphabet
    /\ \A exclude \in Cells : randomExcludingAny(GRID_CELLS, exclude) = Cells \ {exclude}
    /\ InValueLoop =>
           /\ ValueTrial \notin gen.positionMatchTrials =>
                  nextPositionsAny(ValueTrial, gen.n, gen.positions, gen.positionMatchTrials)
                      = Cells \ {At(gen.positions, ValueTrial - gen.n)}
           /\ ValueTrial \notin gen.audioMatchTrials =>
                  nextLettersAny(ValueTrial, gen.n, gen.letterSeq, gen.audioMatchTrials)
                      = Alphabet \ {At(gen.letterSeq, ValueTrial - gen.n)}

\* a returned sequence whose last trial is no position match and carries
\* the last cell, after a first trial with the last letter
C25_Witness ==
    /\ Returned
    /\ ~Stim(gen.totalTrials - 1).isPositionMatch
    /\ Stim(gen.totalTrials - 1).position = GRID_CELLS - 1
    /\ Stim(0).letter = At(letters, Len(letters) - 1)

---------------------------------------------------------------------------
(* Properties of the scorer, under SpecScore *)

Scored == scores # NoScores

\* the indices the scorer has to count
ScoredTrials == nLevel..(Len(sequence) - 1)

Said(i, channel) == At(responses, i)[channel]

PositionTP == Cardinality({i \in ScoredTrials : At(sequence, i).isPositionMatch /\ Said(i, "position") = "true"})
PositionFP == Cardinality({i \in ScoredTrials : ~At(sequence, i).isPositionMatch /\ Said(i, "position") = "true"})
PositionFN == Cardinality({i \in ScoredTrials : At(sequence, i).isPositionMatch /\ Said(i, "position") \in {"false", "null"}})
AudioTP == Cardinality({i \in ScoredTrials : At(sequence, i).isAudioMatch /\ Said(i, "audio") = "true"})
AudioFP == Cardinality({i \in ScoredTrials : ~At(sequence, i).isAudioMatch /\ Said(i, "audio") = "true"})
AudioFN == Cardinality({i \in ScoredTrials : At(sequence, i).isAudioMatch /\ Said(i, "audio") \in {"false", "null"}})

\* pct is 100 * tp / denom rounded to a nearest integer, or 0 when denom = 0
IsPct(pct, tp, denom) ==
    IF denom = 0 THEN pct = 0 ELSE 2 * Abs(100 * tp - pct * denom) <= denom

\* C6: calculateScores returns per channel round(100 * tp / (tp + fp + fn)),
\* or 0 when tp + fp + fn = 0, and overallPct = round(100 * (positionTp +
\* audioTp) / (sum of the six counters)), or 0 when the sum is 0; over the
\* indices n..len-1 a trial is a tp when flagged and answered true, an fp when
\* not flagged and answered true, an fn when flagged and answered false or
\* unset, and is not counted otherwise.
C6_ScoresAreTheRatios ==
    Scored =>
        /\ IsPct(scores.positionPct, PositionTP, PositionTP + PositionFP + PositionFN)
        /\ IsPct(scores.audioPct, AudioTP, AudioTP + AudioFP + AudioFN)
        /\ IsPct(scores.overallPct, PositionTP + AudioTP,
                 PositionTP + PositionFP + PositionFN + AudioTP + AudioFP + AudioFN)

\* scores of a list with a true positive, a false positive, a false negative
\* and an uncounted true negative
C6_Witness ==
    /\ Scored
    /\ PositionTP = 1 /\ PositionFP = 1 /\ AudioFN = 1
    /\ \E i \in ScoredTrials : ~At(sequence, i).isAudioMatch /\ Said(i, "audio") = "false"
    /\ scores.positionPct = 50 /\ scores.audioPct = 0 /\ scores.overallPct = 33

HasPositionMatch == \E i \in ScoredTrials : At(sequence, i).isPositionMatch
HasAudioMatch == \E i \in ScoredTrials : At(sequence, i).isAudioMatch

AllUnset ==
    \A k \in 1..Len(responses) : responses[k].position = "null" /\ responses[k].audio = "null"

\* C7: when the sequence has a position match and an audio match at an index
\* >= n and every field of every response is unset, positionPct, audioPct and
\* overallPct are all 0.
C7_NoResponseScoresZero ==
    (Scored /\ AllUnset /\ HasPositionMatch /\ HasAudioMatch) =>
        scores.positionPct = 0 /\ scores.audioPct = 0 /\ scores.overallPct = 0

C7_Witness == Scored /\ AllUnset /\ HasPositionMatch /\ HasAudioMatch

\* the channel is answered true on exactly the flagged trials and left unset
\* on the others
PerfectPosition ==
    \A i \in ScoredTrials :
        Said(i, "position") = IF At(sequence, i).isPositionMatch THEN "true" ELSE "null"
PerfectAudio ==
    \A i \in ScoredTrials :
        Said(i, "audio") = IF At(sequence, i).isAudioMatch THEN "true" ELSE "null"

\* C8: on a sequence with a match on the channel (as every generated sequence
\* has), position responses true on exactly the trials flagged isPositionMatch
\* and unset elsewhere give positionPct = 100; the same for audio; and
\* overallPct = 100 when both channels are answered this way.
C8_PerfectAnswersScore100 ==
    Scored =>
        /\ (PerfectPosition /\ HasPositionMatch) => scores.positionPct = 100
        /\ (PerfectAudio /\ HasAudioMatch) => scores.audioPct = 100
        /\ (PerfectPosition /\ PerfectAudio /\ (HasPositionMatch \/ HasAudioMatch))
               => scores.overallPct = 100

\* both channels answered perfectly on a sequence with matches and a non-match
C8_Witness ==
    /\ Scored /\ PerfectPosition /\ PerfectAudio /\ HasPositionMatch /\ HasAudioMatch
    /\ \E i \in ScoredTrials : ~At(sequence, i).isPositionMatch
    /\ scores.positionPct = 100

BlankBefore(resp, n) ==
    [k \in 1..Len(resp) |->
        IF k - 1 < n THEN [position |-> "null", audio |-> "null"] ELSE resp[k]]

\* C17: the trials before index n are not scored: the scores are those of the
\* response list with every slot before n reset, so two response lists that
\* agree on every index >= n get the same three percentages.
C17_PrefixIsNotScored ==
    Scored => scores = calculateScores(sequence, BlankBefore(responses, nLevel), nLevel)

\* scores of a list that answers true on both channels before index n
C17_Witness ==
    /\ Scored
    /\ \A i \in 0..(nLevel - 1) : Said(i, "position") = "true" /\ Said(i, "audio") = "true"
    /\ nLevel = 2
    /\ scores.overallPct = 100

\* C15: calculateScores called with len(sequence) # len(responses) fails
\* fast in both directions: it never returns scores.
C15_MismatchFailsFast == Len(sequence) # Len(responses) => ~Scored

\* C30: the three percentages calculateScores returns are integers in
\* 0..100, and overallPct lies between positionPct and audioPct.
C30_OverallBetweenChannels ==
    Scored =>
        /\ scores.positionPct \in 0..100
        /\ scores.audioPct \in 0..100
        /\ scores.overallPct \in 0..100
        /\ Min(scores.positionPct, scores.audioPct) <= scores.overallPct
        /\ scores.overallPct <= Max(scores.positionPct, scores.audioPct)

\* one channel at 50, the other at 100, and the overall score strictly between
C30_Witness ==
    /\ Scored
    /\ scores.positionPct = 50
    /\ scores.audioPct = 100
    /\ scores.overallPct = 67

---------------------------------------------------------------------------
(* Properties of the stats record, under SpecStats *)

\* the stored item is missing or corrupt: unparseable, or not a stats record
StoredAbsentOrCorrupt ==
    \/ stored.kind \in {"missing", "unparseable"}
    \/ stored.kind = "json" /\ "history" \notin DOMAIN JSONparse(stored)

\* C19: when the record is missing or its content is corrupt, getStats
\* returns the empty default stats (a step that changes what renderStats
\* received is a getStats call on the stored item).
C19_CorruptReadsAsDefault ==
    [][(statsView' # statsView /\ stored' = stored /\ StoredAbsentOrCorrupt)
           => statsView' = DefaultStats]_vars

\* the persisted history
PersistedHistory == JSONparse(stored).history

HasHistory == stored.kind = "json" /\ "history" \in DOMAIN JSONparse(stored)

---------------------------------------------------------------------------
(* Properties of the level controller, under SpecLevel *)

\* C9: updateResultsUI moves the level as follows: overallPct >= 85 and
\* n < 9 gives n + 1; else overallPct < 70 and n > 1 gives n - 1; else n
\* stays (a step that shows new scores is a step of updateResultsUI).
C9_LevelRule ==
    [][scores' # scores =>
          nLevel' = IF scores'.overallPct >= 85 /\ nLevel < 9 THEN nLevel + 1
                    ELSE IF scores'.overallPct < 70 /\ nLevel > 1 THEN nLevel - 1
                    ELSE nLevel]_vars

\* 60 at n = 3 has given 2
C9_Witness == scores.overallPct = 60 /\ levelUpMessage = "level-down" /\ nLevel = 2

\* C10: after any adjustN calls and sessions the level stays within 1..9.
C10_LevelWithinBounds == nLevel \in 1..9

\* a session has ended at n = 9 with the top score and left the level at 9
C10_Witness == nLevel = 9 /\ scores.overallPct = 100 /\ levelUpMessage = "none"


---------------------------------------------------------------------------
(* Properties of the session, under Spec *)

\* the slot handleInput writes: the one of the most recently shown trial
CurrentSlot == At(responses, currentTrial - 1)
CurrentSlotAfter == At(responses', currentTrial - 1)

InputAccepted == gameActive /\ currentTrial > 0 /\ currentTrial <= Len(responses)

\* a step of the session other than the start of a new one
SameSession == starting' = starting

BothSet == [position |-> "true", audio |-> "true"]
Unset == [position |-> "null", audio |-> "null"]

\* C11: once exitGame has run, and until startGame is called again, no step
\* shows a stimulus, advances currentTrial, invokes endGame, records a session
\* or moves nLevel.
C11_ExitCancelsSession ==
    [][(aborted /\ aborted')
          => UNCHANGED <<currentTrial, activeCell, gameActive, now, recorded, stored,
                         scores, nLevel>>]_vars

\* C12: a step that changes a response slot is an accepted handleInput call:
\* it changes only the slot of the most recently shown trial (index
\* currentTrial - 1) and nothing of the timers, the trial counter or the
\* scores; the list is replaced only when a session starts.
C12_OnlyCurrentSlotWritten ==
    [][SameSession =>
          /\ Len(responses') = Len(responses)
          /\ \A k \in 1..Len(responses) :
                responses'[k] # responses[k] =>
                    /\ gameActive
                    /\ k = currentTrial
                    /\ UNCHANGED <<currentTrial, timers, gameTimeout, gameActive,
                                   scores, stored, sequence>>]_vars

\* a trial was answered, the next trial is on display, and the answer is kept
C12_Witness ==
    /\ gameActive
    /\ currentTrial = Len(responses)
    /\ currentTrial >= 2
    /\ At(responses, currentTrial - 2) = [position |-> "true", audio |-> "null"]
    /\ CurrentSlot = Unset

\* C13: on the current slot left sets position and keeps audio, right sets
\* audio and keeps position, up sets both, down unsets both; left-then-right
\* and right-then-left equal up; every gesture is idempotent; no response
\* field is ever false; and an accepted gesture leaves the slot as one of the
\* four directions prescribes.
C13_GesturesSetTheSlot ==
    /\ [](\A k \in 1..Len(responses) :
             responses[k].position \in {"null", "true"} /\ responses[k].audio \in {"null", "true"})
    /\ [](InputAccepted =>
             /\ handleInput(CurrentSlot, "left") = [CurrentSlot EXCEPT !.position = "true"]
             /\ handleInput(CurrentSlot, "right") = [CurrentSlot EXCEPT !.audio = "true"]
             /\ handleInput(CurrentSlot, "up") = BothSet
             /\ handleInput(CurrentSlot, "down") = Unset
             /\ handleInput(handleInput(CurrentSlot, "left"), "right") = BothSet
             /\ handleInput(handleInput(CurrentSlot, "right"), "left") = BothSet
             /\ \A d \in Directions :
                    handleInput(handleInput(CurrentSlot, d), d) = handleInput(CurrentSlot, d))
    /\ [][(SameSession /\ responses' # responses) =>
             CurrentSlotAfter \in {[CurrentSlot EXCEPT !.position = "true"],
                                   [CurrentSlot EXCEPT !.audio = "true"],
                                   BothSet, Unset}]_vars

\* the trial before was answered with one gesture, the current one with both
\* fields set
C13_Witness ==
    /\ InputAccepted
    /\ currentTrial >= 2
    /\ At(responses, currentTrial - 2) = [position |-> "null", audio |-> "true"]
    /\ CurrentSlot = BothSet

\* C18: whatever localStorage holds and whether or not getItem or setItem
\* throws, an endGame that reaches recordSession completes: no exception
\* escapes, the scores are shown, the level controller runs and the start
\* screen is shown.
C18_EndGameCompletes ==
    [][now' # now =>
          /\ uncaught' = uncaught
          /\ scores' = calculateScores(sequence, responses, nLevel)
          /\ levelUpMessage' = levelChange(scores'.overallPct, nLevel)
          /\ screen' = "start-screen"]_vars

\* C27: the entry endGame records carries the level the session's sequence was
\* generated with and is scored at, the per-level attempts are counted under
\* that key and no other, and when the level controller then moves the level
\* the entry does not hold the new one.
C27_RecordedAtPlayedLevel ==
    [][recorded' # recorded =>
          LET e == recorded'[Len(recorded')]
              st == JSONparse(stored')
          IN /\ e.nLevel = playedLevel
             /\ e.nLevel = nLevel
             /\ e.overallPct = calculateScores(sequence, responses, playedLevel).overallPct
             /\ st.history[Len(st.history)] = e
             /\ \E getItemThrows \in BOOLEAN :
                    /\ "levels" \in DOMAIN getStats(stored, getItemThrows)
                    /\ \A k \in MIN_LEVEL..MAX_LEVEL :
                           st.levels[k].attempts =
                              getStats(stored, getItemThrows).levels[k].attempts
                                 + (IF k = playedLevel THEN 1 ELSE 0)
             /\ (nLevel' # nLevel => e.nLevel # nLevel')]_vars

\* a session played at level 2 was recorded under 2 and the level then dropped
\* to 1
C27_Witness ==
    /\ Len(recorded) = 1
    /\ recorded[1].nLevel = 2
    /\ JSONparse(stored).levels[2].attempts = 1
    /\ playedLevel = 2
    /\ nLevel = 1
    /\ levelUpMessage = "level-down"

\* no session is active, or none of its stimuli has been shown
NoSlotOpen == ~gameActive \/ currentTrial = 0

\* C28: while no session is active or no stimulus of the session has been
\* shown, a gesture changes nothing at all, and the only step that changes the
\* responses is a startGame that replaces the list with unset slots.
C28_NoInputWithoutOpenSlot ==
    /\ [][(NoSlotOpen /\ \E direction \in Directions : HandleInput(direction))
             => UNCHANGED vars]_vars
    /\ [][(NoSlotOpen /\ responses' # responses)
             => (starting > 0 /\ starting' = 0
                 /\ responses' = blankResponses(sequence'))]_vars

\* an answered session was left with the exit button: its set slot is still
\* in the list and no session is active
C28_Witness ==
    /\ aborted
    /\ ~gameActive
    /\ currentTrial >= 1
    /\ currentTrial <= Len(responses)
    /\ At(responses, currentTrial - 1) = BothSet
    /\ screen = "start-screen"

\* no field of any response slot is true
Unanswered ==
    \A k \in 1..Len(responses) :
        responses[k].position # "true" /\ responses[k].audio # "true"

\* C29: when endGame has scored a session in which no response field was set
\* to true, the overall score is 0 and a session played above level 1 ends
\* with the level one below the level played; no endGame moves the level more
\* than one away from the level played.
C29_UnansweredSessionLowersLevel ==
    [][now' # now =>
          /\ Unanswered =>
                /\ calculateScores(sequence, responses, nLevel).overallPct = 0
                /\ playedLevel > MIN_LEVEL => nLevel' = playedLevel - 1
          /\ Abs(nLevel' - playedLevel) <= 1]_vars

\* C23: at most one trial-advancement timer is pending at any time and
\* gameTimeout holds its handle, also when startGame is called again while a
\* call is still starting; so an exitGame leaves no timer pending and no step
\* advances currentTrial while another advancement is pending.
C23_SingleAdvancementTimer ==
    /\ [](Cardinality(timers) <= 1 /\ \A t \in timers : t.id = gameTimeout)
    /\ [][(~aborted /\ aborted') => timers' = {}]_vars
    /\ [][currentTrial' = currentTrial + 1 => Cardinality(timers) = 1]_vars

(***************************************************************************)
(* Properties of the session with the trial-count buttons, under           *)
(* SpecTrials                                                              *)
(***************************************************************************)

\* the sequence, the responses and the settings agree
SessionConsistent ==
    /\ Len(sequence) = numTrials
    /\ Len(responses) = numTrials
    /\ playedLevel = nLevel

\* a step in which endGame runs: the active session ends without the exit
\* button, or recordSession is reached
EndGameStep == (gameActive /\ ~gameActive' /\ ~aborted') \/ now' # now

\* C24: throughout an active session, and so when endGame calls the scorer,
\* sequence and responses both have numTrials entries and nLevel is the lag
\* the sequence was generated with; the sequence changes only when a
\* startGame call builds the one of the session it starts, together with a
\* fresh response list and a reset trial counter.
C24_ScorerInputsConsistent ==
    /\ [](gameActive => SessionConsistent)
    /\ [][EndGameStep => SessionConsistent]_vars
    /\ [][sequence' # sequence =>
             /\ starting > 0 /\ starting' = 0
             /\ gameActive'
             /\ currentTrial' = 0
             /\ responses' = blankResponses(sequence')
             /\ SessionConsistent']_vars

\* a session of 15 trials played at level 3 has been scored and recorded
C24_Witness ==
    /\ ~gameActive
    /\ Len(recorded) = 1
    /\ recorded[1].nLevel = 3
    /\ playedLevel = 3
    /\ Len(sequence) = 15
    /\ Len(responses) = 15
    /\ currentTrial = 15

(***************************************************************************)
(* The presentation loop, under SpecFair                                   *)
(***************************************************************************)

\* C22: in an active session every advance of currentTrial shows the next
\* trial of the sequence, and only once the stimulus before it has been hidden
\* and its gap has passed; a stimulus that is hidden is followed by a gap
\* timer; endGame runs only in an active session whose numTrials trials have
\* all been shown and hidden; and with fair timers every active session ends.
C22_TrialsInOrderThenEndGame ==
    /\ [][(gameActive /\ gameActive' /\ currentTrial' # currentTrial /\ starting' = starting) =>
             /\ currentTrial' = currentTrial + 1
             /\ activeCell = -1
             /\ activeCell' = At(sequence, currentTrial).position
             /\ \A t \in timers' : t.kind = "hide"]_vars
    /\ [][(gameActive /\ gameActive' /\ activeCell # -1 /\ activeCell' = -1) =>
             \A t \in timers' : t.kind = "gap"]_vars
    /\ [][EndGameStep =>
             (gameActive /\ currentTrial = numTrials /\ activeCell = -1 /\ timers' = {})]_vars
    /\ [](gameActive => <>(~gameActive))

(***************************************************************************)
(* Properties of the audio loading, under SpecAudio                        *)
(***************************************************************************)

LoadDone == load.pc = "done"

\* C21: once loadAudioFiles has finished, the start button is enabled and
\* audioLoaded is set when every letter loaded or when more than half of the
\* active alphabet loaded; when every letter failed the button stays disabled,
\* audioLoaded stays false and no startGame call is ever made.
C21_StartFollowsLoadedFraction ==
    /\ load.loaded + Len(load.failed) = load.index
    /\ (LoadDone /\ (load.loaded = Len(letters) \/ 2 * load.loaded > Len(letters)))
          => (~startBtn.disabled /\ audioLoaded)
    /\ ((~LoadDone \/ load.loaded = 0)
          => (startBtn.disabled /\ ~audioLoaded /\ starts = 0 /\ starting = 0))

\* five of the nine letters loaded, the first four failed, and a session was
\* started
C21_Witness ==
    /\ LoadDone
    /\ load.failed = <<"C", "H", "J", "K">>
    /\ ~startBtn.disabled
    /\ audioLoaded
    /\ starts = 1

---------------------------------------------------------------------------
(***************************************************************************)
(* The audio cue of a trial, under SpecAudioSession                        *)
(***************************************************************************)

\* nextTrial presents the stimulus sequence[currentTrial]: showStimulus calls
\* playLetter(stimulus.letter)  (lines 330-336, 359)
ShowsStimulus ==
    /\ currentTrial' = currentTrial + 1
    /\ currentTrial < Len(sequence)

=============================================================================
